---- MODULE Spec2Model ----
(***************************************************************************)
(* Model of the TopoBenchmark backbone-adaptation layer:                   *)
(*   - the backbone wrappers (models/wrappers/default_wrapper.py),         *)
(*   - NetworkModule (models/network_module.py),                           *)
(*   - the sample dataset (DataloadDataset, exercised by its test),        *)
(*   - the graph2graph lifting discovery (liftings/graph2graph).           *)
(* Tensors are sequences of rows, each row a sequence of integers; a       *)
(* record (batch) is a function from the field names it carries to values. *)
(***************************************************************************)
EXTENDS Integers, Sequences, FiniteSets, TLC

VARIABLES
    wrapper,        \* wrapper spec: the constructed wrapper [kind, backbone] or NoWrapper
    batch,          \* the record handed to the wrapper / to the module's steps
    bout,           \* what the wrapped backbone returns for this batch
    w_outcome,      \* wrapper spec: "idle", "returned", "AttributeError", "RuntimeError"
    w_out,          \* wrapper spec: the map returned by the wrapper (NoMap if none)
    w_calls,        \* wrapper spec: backbone invocations made by the call
    nm,             \* NetworkModule attributes (status, backbone, evaluator, val_acc_best)
    step,           \* NetworkModule: result of the last hook/step that ran
    val_seen,       \* history: acc values given to val_acc_best since its last reset
    data_lst,       \* DataloadDataset.data_lst
    ds_res,         \* result of the last DataloadDataset call
    directory,      \* modules of the scanned package, each a set of member classes
    registry,       \* GRAPH2GRAPH_LIFTINGS and the namespace populated from it
    prev_registry   \* the mapping of the scan before the last one

wvars == <<wrapper, batch, bout, w_outcome, w_out, w_calls>>
mvars == <<nm, step, val_seen>>
dvars == <<data_lst, ds_res>>
rvars == <<directory, registry, prev_registry>>
vars == <<wrapper, batch, bout, w_outcome, w_out, w_calls, nm, step, val_seen,
          data_lst, ds_res, directory, registry, prev_registry>>

(***************************************************************************)
(* Bounds                                                                  *)
(***************************************************************************)
NumNodes == 2
NumEdges == 2
FeatDim == 1
MaxSamples == 2
MaxFiles == 2

Nodes == 1..NumNodes
Edges == 1..NumEdges

(***************************************************************************)
(* Tensors                                                                 *)
(***************************************************************************)
RECURSIVE SumTo(_, _)
SumTo(f, n) == IF n = 0 THEN 0 ELSE f[n] + SumTo(f, n - 1)

NRows(m) == Len(m)
NCols(m) == IF Len(m) = 0 THEN 0 ELSE Len(m[1])

\* torch.sparse.mm(a, b): defined when a's column count is b's row count
MatMulDefined(a, b) == NCols(a) = NRows(b)
MatMul(a, b) ==
    [n \in 1..NRows(a) |->
        [c \in 1..NCols(b) |->
            SumTo([e \in 1..NCols(a) |-> a[n][e] * b[e][c]], NCols(a))]]

\* val[mask]: the rows of val at the positions where the boolean mask is set
RECURSIVE MaskRowsFrom(_, _, _)
MaskRowsFrom(val, mask, i) ==
    IF i > Len(val) THEN <<>>
    ELSE IF mask[i] THEN <<val[i]>> \o MaskRowsFrom(val, mask, i + 1)
         ELSE MaskRowsFrom(val, mask, i + 1)
MaskRows(val, mask) == MaskRowsFrom(val, mask, 1)

(***************************************************************************)
(* Records                                                                 *)
(***************************************************************************)
FieldNames == {"y", "x", "incidence_1", "x_1", "laplacian_up_1", "laplacian_down_1",
               "adjacency_0", "down_laplacian_1", "up_laplacian_1"}

Has(rec, f) == f \in DOMAIN rec

NoMap == [none |-> TRUE]
NoWrapper == [kind |-> "none", backbone |-> "none"]
EmptyRecord == [f \in {} |-> 0]

\* canonical contents of the structural fields (1x1 tensors, one per field)
FieldVal(f) ==
    CASE f = "x" -> <<<<11>>>>
      [] f = "x_1" -> <<<<12>>>>
      [] f = "laplacian_up_1" -> <<<<13>>>>
      [] f = "laplacian_down_1" -> <<<<14>>>>
      [] f = "adjacency_0" -> <<<<15>>>>
      [] f = "down_laplacian_1" -> <<<<16>>>>
      [] f = "up_laplacian_1" -> <<<<17>>>>

CanonY == [n \in Nodes |-> n % 2]
CanonIncidence == [n \in Nodes |-> [e \in Edges |-> IF n = e THEN 1 ELSE 0]]

\* boundary matrices of NumEdges edges over NumNodes nodes, signed or unsigned
SignedIncidences ==
    {[n \in Nodes |-> [e \in Edges |->
        IF n = ends[e][1] THEN -1 ELSE IF n = ends[e][2] THEN 1 ELSE 0]] :
     ends \in [Edges -> {p \in Nodes \X Nodes : p[1] # p[2]}]}
UnsignedIncidences ==
    {[n \in Nodes |-> [e \in Edges |->
        IF n = ends[e][1] \/ n = ends[e][2] THEN 1 ELSE 0]] :
     ends \in [Edges -> {p \in Nodes \X Nodes : p[1] < p[2]}]}
Incidences == SignedIncidences \cup UnsignedIncidences

FullRecord(y, inc) ==
    [f \in FieldNames |->
        IF f = "y" THEN y ELSE IF f = "incidence_1" THEN inc ELSE FieldVal(f)]

\* outputs a backbone may return: node-level x_0 and rank-1 x_1
OutVals == {-1, 2}
X1Outs == UNION {[1..r -> [1..FeatDim -> OutVals]] : r \in 1..NumEdges}
X0Outs == [Nodes -> [1..FeatDim -> {0, 1}]]
CanonX0 == [n \in Nodes |-> [c \in 1..FeatDim |-> n]]
CanonX1 == [e \in Edges |-> [c \in 1..FeatDim |-> 2]]

\* records with any subset of the fields present
PartialInputs ==
    {[batch |-> [f \in P |-> FullRecord(CanonY, CanonIncidence)[f]],
      bout |-> [x_0 |-> CanonX0, x_1 |-> CanonX1]] : P \in SUBSET FieldNames}
\* complete records over every boundary matrix and rank-1 backbone output
ProjectionInputs ==
    {[batch |-> FullRecord(CanonY, inc), bout |-> [x_0 |-> CanonX0, x_1 |-> o]] :
     inc \in Incidences, o \in X1Outs}
\* complete records over every labelling and node-level backbone output
LabelInputs ==
    {[batch |-> FullRecord(y, CanonIncidence), bout |-> [x_0 |-> o, x_1 |-> CanonX1]] :
     y \in [Nodes -> {0, 1}], o \in X0Outs}
WrapperInputs == PartialInputs \cup ProjectionInputs \cup LabelInputs

(***************************************************************************)
(* default_wrapper.py                                                      *)
(***************************************************************************)
WrapperKinds == {"HypergraphWrapper", "SANWrapper", "CANWrapper"}
BackboneRefs == {"bb1", "bb2"}

\* DefaultWrapper.__init__
DefaultWrapper_init(kind, backbone) == [kind |-> kind, backbone |-> backbone]

\* one invocation self.backbone(*args)
Invoke(self, args) == [backbone |-> self.backbone, args |-> args]

\* how a call ends: the exception or the returned map, the backbone invocations made,
\* and the wrapper and the record as the call leaves them
Raised(exc, calls, self, b) ==
    [outcome |-> exc, out |-> NoMap, calls |-> calls, self |-> self, batch |-> b]
Returned(out, calls, self, b) ==
    [outcome |-> "returned", out |-> out, calls |-> calls, self |-> self, batch |-> b]

\* first of the fields, in reading order, that the record lacks
Lacks(b, fields) == \E i \in 1..Len(fields) : ~Has(b, fields[i])

\* variant: the backbone's arguments in the wrong order
HypergraphWrapper_call_Swapped(self, b, ret) ==
    IF ~Has(b, "y") THEN Raised("AttributeError", <<>>, self, b)
    ELSE IF Lacks(b, <<"x", "incidence_1">>) THEN Raised("AttributeError", <<>>, self, b)
    ELSE Returned(("labels" :> b["y"]) @@ ("x_0" :> ret.x_0) @@ ("hyperedge" :> ret.x_1),
                  <<Invoke(self, <<b["incidence_1"], b["x"]>>)>>, self, b)

HypergraphWrapper_call(self, b, ret) ==
    IF ~Has(b, "y") THEN Raised("AttributeError", <<>>, self, b)
    ELSE IF Lacks(b, <<"x", "incidence_1">>) THEN Raised("AttributeError", <<>>, self, b)
    ELSE LET call == Invoke(self, <<b["x"], b["incidence_1"]>>)
             x_0 == ret.x_0
             x_1 == ret.x_1
         IN  Returned(("labels" :> b["y"]) @@ ("x_0" :> x_0) @@ ("hyperedge" :> x_1),
                      <<call>>, self, b)

\* variant: the rank-1 output is handed on without the projection to the nodes
SANWrapper_call_NoProjection(self, b, ret) ==
    IF ~Has(b, "y") THEN Raised("AttributeError", <<>>, self, b)
    ELSE IF Lacks(b, <<"x_1", "laplacian_up_1", "laplacian_down_1">>)
         THEN Raised("AttributeError", <<>>, self, b)
    ELSE LET call == Invoke(self, <<b["x_1"], b["laplacian_up_1"], b["laplacian_down_1"]>>)
         IN  IF ~Has(b, "incidence_1") THEN Raised("AttributeError", <<call>>, self, b)
             ELSE Returned(("labels" :> b["y"]) @@ ("x_0" :> ret.x_1), <<call>>, self, b)

\* variant: a missing incidence_1 is swallowed and the labels alone are returned
SANWrapper_call_Partial(self, b, ret) ==
    IF ~Has(b, "y") THEN Raised("AttributeError", <<>>, self, b)
    ELSE IF Lacks(b, <<"x_1", "laplacian_up_1", "laplacian_down_1">>)
         THEN Raised("AttributeError", <<>>, self, b)
    ELSE LET call == Invoke(self, <<b["x_1"], b["laplacian_up_1"], b["laplacian_down_1"]>>)
         IN  IF ~Has(b, "incidence_1")
             THEN Returned("labels" :> b["y"], <<call>>, self, b)
             ELSE IF ~MatMulDefined(b["incidence_1"], ret.x_1)
                  THEN Raised("RuntimeError", <<call>>, self, b)
             ELSE Returned(("labels" :> b["y"])
                             @@ ("x_0" :> MatMul(b["incidence_1"], ret.x_1)),
                           <<call>>, self, b)

SANWrapper_call(self, b, ret) ==
    IF ~Has(b, "y") THEN Raised("AttributeError", <<>>, self, b)
    ELSE IF Lacks(b, <<"x_1", "laplacian_up_1", "laplacian_down_1">>)
         THEN Raised("AttributeError", <<>>, self, b)
    ELSE LET call == Invoke(self, <<b["x_1"], b["laplacian_up_1"], b["laplacian_down_1"]>>)
             x_1 == ret.x_1
         IN  IF ~Has(b, "incidence_1") THEN Raised("AttributeError", <<call>>, self, b)
             ELSE IF ~MatMulDefined(b["incidence_1"], x_1)
                  THEN Raised("RuntimeError", <<call>>, self, b)
             ELSE Returned(("labels" :> b["y"]) @@ ("x_0" :> MatMul(b["incidence_1"], x_1)),
                           <<call>>, self, b)

\* variant: the output map is built without the labels
CANWrapper_call_NoLabels(self, b, ret) ==
    IF ~Has(b, "y") THEN Raised("AttributeError", <<>>, self, b)
    ELSE IF Lacks(b, <<"x", "x_1", "adjacency_0", "down_laplacian_1", "up_laplacian_1">>)
         THEN Raised("AttributeError", <<>>, self, b)
    ELSE Returned("x_graph" :> ret.x_0,
                  <<Invoke(self, <<b["x"], b["x_1"], b["adjacency_0"],
                                   b["down_laplacian_1"], b["up_laplacian_1"]>>)>>, self, b)

CANWrapper_call(self, b, ret) ==
    IF ~Has(b, "y") THEN Raised("AttributeError", <<>>, self, b)
    ELSE IF Lacks(b, <<"x", "x_1", "adjacency_0", "down_laplacian_1", "up_laplacian_1">>)
         THEN Raised("AttributeError", <<>>, self, b)
    ELSE LET call == Invoke(self, <<b["x"], b["x_1"], b["adjacency_0"],
                                    b["down_laplacian_1"], b["up_laplacian_1"]>>)
             x_0 == ret.x_0
         IN  Returned(("labels" :> b["y"]) @@ ("x_graph" :> x_0), <<call>>, self, b)

\* wrapper(batch): dispatch on the wrapper's class
Wrapper_call(self, b, ret) ==
    CASE self.kind = "HypergraphWrapper" -> HypergraphWrapper_call(self, b, ret)
      [] self.kind = "SANWrapper" -> SANWrapper_call(self, b, ret)
      [] self.kind = "CANWrapper" -> CANWrapper_call(self, b, ret)

(***************************************************************************)
(* network_module.py                                                       *)
(***************************************************************************)
UniGCNII == "<class 'topomodelx.nn.hypergraph.unigcnii.UniGCNII'>"
AllSetTransformer == "<class 'topomodelx.nn.hypergraph.allset_transformer.AllSetTransformer'>"
SAN == "<class 'topomodelx.nn.simplicial.san.SAN'>"
CAN == "<class 'topomodelx.nn.cell.can.CAN'>"
GCN == "<class 'torch_geometric.nn.models.basic_gnn.GCN'>"
BackboneClasses == {UniGCNII, AllSetTransformer, SAN, CAN, GCN}

\* MaxMetric() before any update: minus infinity (accuracies are never negative)
NegInf == -1
Max2(a, b) == IF a >= b THEN a ELSE b

NewModule ==
    [status |-> "new", hparams |-> "none", backbone |-> NoWrapper,
     evaluator |-> "None", val_acc_best |-> NegInf]
NoStep == [op |-> "none", outcome |-> "none", pre |-> NoMap, out |-> NoMap,
           logged |-> NoMap, trace |-> <<>>]

\* NetworkModule.__init__(backbone, ...): backbone is [cls, ref]
NetworkModule_init(backbone) ==
    IF backbone.cls \in {UniGCNII, AllSetTransformer}
    THEN [status |-> "ready", hparams |-> backbone.cls,
          backbone |-> DefaultWrapper_init("HypergraphWrapper", backbone.ref),
          evaluator |-> "None", val_acc_best |-> NegInf]
    ELSE IF backbone.cls \in {SAN}
    THEN [status |-> "ready", hparams |-> backbone.cls,
          backbone |-> DefaultWrapper_init("SANWrapper", backbone.ref),
          evaluator |-> "None", val_acc_best |-> NegInf]
    ELSE [status |-> "NotImplementedError", hparams |-> backbone.cls,
          backbone |-> NoWrapper, evaluator |-> "None", val_acc_best |-> NegInf]

\* NetworkModule.forward
forward(self, b, ret) == Wrapper_call(self.backbone, b, ret)

\* readout: node-level predictions from the node-level embedding
Readout(m) == ("logits" :> m["x_0"]) @@ m

\* criterion: writes the loss of logits against labels into the map it is given
RECURSIVE CountWrong(_, _, _)
CountWrong(logits, labels, i) ==
    IF i > Len(labels) THEN 0
    ELSE (IF logits[i][1] # labels[i] THEN 1 ELSE 0) + CountWrong(logits, labels, i + 1)
Criterion(m) == ("loss" :> CountWrong(m["logits"], m["labels"], 1)) @@ m

\* evaluator.eval: writes the metrics of logits against labels into the map
Evaluator_eval(m) ==
    ("metrics" :> [acc |-> Len(m["labels"]) - CountWrong(m["logits"], m["labels"], 1)]) @@ m

\* NetworkModule.model_step: forward -> readout -> criterion
model_step(self, b, ret) ==
    LET f == forward(self, b, ret)
    IN  IF f.outcome # "returned"
        THEN [outcome |-> f.outcome, out |-> NoMap, trace |-> <<"backbone">>]
        ELSE [outcome |-> "ok", out |-> Criterion(Readout(f.out)),
              trace |-> <<"backbone", "readout", "criterion">>]

\* for key, val in model_out.items(): if key not in ["loss", "hyperedge"]: val[mask]
KeepOnly(m, mask) ==
    [k \in DOMAIN m |-> IF k \notin {"loss", "hyperedge"} THEN MaskRows(m[k], mask) ELSE m[k]]

\* self.log(f"{prefix}/loss", ...) and self.log(f"{prefix}/{key}", ...) per metric
LogStep(prefix, m) ==
    CASE prefix = "train" -> ("train/loss" :> m["loss"]) @@ ("train/acc" :> m["metrics"].acc)
      [] prefix = "val" -> ("val/loss" :> m["loss"]) @@ ("val/acc" :> m["metrics"].acc)
      [] prefix = "test" -> ("test/loss" :> m["loss"]) @@ ("test/acc" :> m["metrics"].acc)

\* the body the three step hooks share: model_step, mask, criterion, evaluator, log
masked_step(op, self, b, ret, maskfield, prefix) ==
    LET ms == model_step(self, b, ret)
    IN  IF ms.outcome # "ok"
        THEN [op |-> op, outcome |-> ms.outcome, pre |-> NoMap, out |-> NoMap,
              logged |-> NoMap, trace |-> ms.trace]
        ELSE
        LET kept == KeepOnly(ms.out, b[maskfield])
            crit == Criterion(kept)
        IN  IF self.evaluator = "None"
            THEN [op |-> op, outcome |-> "AttributeError", pre |-> ms.out, out |-> crit,
                  logged |-> NoMap, trace |-> ms.trace \o <<"mask", "criterion">>]
            ELSE LET ev == Evaluator_eval(crit)
                 IN  [op |-> op, outcome |-> "ok", pre |-> ms.out, out |-> ev,
                      logged |-> LogStep(prefix, ev),
                      trace |-> ms.trace \o <<"mask", "criterion", "evaluator", "log">>]

training_step(self, b, ret) ==
    masked_step("training_step", self, b, ret, "train_mask", "train")
\* variant: the validation step keeps the train data points
validation_step_TrainMask(self, b, ret) ==
    masked_step("validation_step", self, b, ret, "train_mask", "val")

validation_step(self, b, ret) ==
    masked_step("validation_step", self, b, ret, "val_mask", "val")
test_step(self, b, ret) ==
    masked_step("test_step", self, b, ret, "test_mask", "test")

\* MaxMetric: self.val_acc_best(value), .reset(), .compute()
\* variant: the tracker keeps the latest value instead of the largest
MaxMetric_update_Latest(best, value) == value

MaxMetric_update(best, value) == Max2(best, value)
MaxMetric_reset == NegInf
MaxMetric_compute(best) == best

(***************************************************************************)
(* DataloadDataset (data/dataload), as its test constructs and reads it    *)
(***************************************************************************)
\* a sample is an insertion-ordered mapping: a sequence of <<key, value>> pairs
SampleKeys == {"x", "edge_index", "x_1"}
KeyOrders ==
    {ks \in UNION {[1..k -> SampleKeys] : k \in 0..Cardinality(SampleKeys)} :
        \A i, j \in 1..Len(ks) : i # j => ks[i] # ks[j]}
KeyCode(k) == CASE k = "x" -> 1 [] k = "edge_index" -> 2 [] k = "x_1" -> 3
Samples ==
    {[i \in 1..Len(ks) |-> <<ks[i], <<<<seed, KeyCode(ks[i])>>>> >>] :
     ks \in KeyOrders, seed \in {7, 8}}
DataLists == UNION {[1..k -> Samples] : k \in 0..MaxSamples}

NoCall == [op |-> "none", arg |-> 0, outcome |-> "none", data |-> <<>>, keys |-> <<>>, len |-> 0]

\* data.keys() and data[key]
Data_keys(data) == [i \in 1..Len(data) |-> data[i][1]]
Data_getitem(data, key) == (CHOOSE i \in 1..Len(data) : data[i][1] = key)
Data_value(data, key) == data[Data_getitem(data, key)][2]

DataloadDataset_init(lst) == lst
DataloadDataset_len(self) == Len(self)
\* variant: the field names are those of the first sample
DataloadDataset_get_FirstKeys(self, idx) ==
    IF idx < 0 \/ idx >= Len(self)
    THEN [NoCall EXCEPT !.op = "get", !.arg = idx, !.outcome = "IndexError"]
    ELSE LET data == self[idx + 1]
             keys == Data_keys(self[1])
         IN  [NoCall EXCEPT !.op = "get", !.arg = idx, !.outcome = "ok",
                            !.data = [j \in 1..Len(keys) |->
                                        IF \E i \in 1..Len(data) : data[i][1] = keys[j]
                                        THEN Data_value(data, keys[j]) ELSE <<>>],
                            !.keys = keys]

DataloadDataset_get(self, idx) ==
    IF idx < 0 \/ idx >= Len(self)
    THEN [NoCall EXCEPT !.op = "get", !.arg = idx, !.outcome = "IndexError"]
    ELSE LET data == self[idx + 1]
             keys == Data_keys(data)
         IN  [NoCall EXCEPT !.op = "get", !.arg = idx, !.outcome = "ok",
                            !.data = [j \in 1..Len(keys) |-> Data_value(data, keys[j])],
                            !.keys = keys]

(***************************************************************************)
(* liftings/graph2graph/__init__.py and the discovery it calls             *)
(***************************************************************************)
\* classes a scanned module may hold as members; mro is the set of the class
\* itself and its ancestors
LiftingMap == [id |-> "LiftingMap", name |-> "LiftingMap", mro |-> {"LiftingMap"},
               abstract |-> TRUE]
IdentityLiftingA == [id |-> "c1", name |-> "IdentityLifting", mro |-> {"c1", "LiftingMap"},
                     abstract |-> FALSE]
IdentityLiftingB == [id |-> "c2", name |-> "IdentityLifting", mro |-> {"c2", "LiftingMap"},
                     abstract |-> FALSE]
KHopLifting == [id |-> "c3", name |-> "KHopLifting", mro |-> {"c3", "LiftingMap"},
                abstract |-> FALSE]
Helper == [id |-> "h", name |-> "Helper", mro |-> {"h"}, abstract |-> FALSE]
Classes == {LiftingMap, IdentityLiftingA, IdentityLiftingB, KHopLifting, Helper}

\* a module's members carry distinct names
ModuleFiles == {f \in SUBSET Classes : \A a, b \in f : a.name = b.name => a = b}
Directories == UNION {[1..k -> ModuleFiles] : k \in 0..MaxFiles}

issubclass(obj, cls) == cls.id \in obj.mro

\* condition=lambda name, obj: issubclass(obj, LiftingMap)
condition(name, obj) == issubclass(obj, LiftingMap)

EmptyObjs == [n \in {} |-> LiftingMap]
NotScanned == [status |-> "none", mapping |-> EmptyObjs, namespace |-> EmptyObjs]

\* variant: a later object under a name silently replaces the earlier one
RECURSIVE DiscoverOverwriting(_, _, _)
DiscoverOverwriting(files, i, objs) ==
    IF i > Len(files) THEN [status |-> "ok", mapping |-> objs]
    ELSE LET admitted == {o \in files[i] : issubclass(o, LiftingMap)}
             names == {o.name : o \in admitted}
         IN  DiscoverOverwriting(files, i + 1,
                [n \in DOMAIN objs \cup names |->
                    IF n \in names THEN CHOOSE o \in admitted : o.name = n
                    ELSE objs[n]])

\* discover_objs: the members of every module of the package that the
\* condition admits, by name; two different objects under one name are an error
RECURSIVE DiscoverFrom(_, _, _)
DiscoverFrom(files, i, objs) ==
    IF i > Len(files) THEN [status |-> "ok", mapping |-> objs]
    ELSE LET admitted == {o \in files[i] : condition(o.name, o)}
             clash == \E o \in admitted : o.name \in DOMAIN objs /\ objs[o.name] # o
             names == {o.name : o \in admitted}
         IN  IF clash THEN [status |-> "RegistrationError", mapping |-> EmptyObjs]
             ELSE DiscoverFrom(files, i + 1,
                    [n \in DOMAIN objs \cup names |->
                        IF n \in names THEN CHOOSE o \in admitted : o.name = n
                        ELSE objs[n]])
discover_objs(files) == DiscoverFrom(files, 1, EmptyObjs)

\* the names the package module holds before locals().update
BaseNamespace ==
    ("discover_objs" :> "function") @@ ("LiftingMap" :> LiftingMap.id)
\* GRAPH2GRAPH_LIFTINGS = discover_objs(...); locals().update(GRAPH2GRAPH_LIFTINGS)
graph2graph_import(files) ==
    LET found == discover_objs(files)
    IN  IF found.status # "ok"
        THEN [status |-> found.status, mapping |-> EmptyObjs, namespace |-> BaseNamespace]
        ELSE [status |-> "ok", mapping |-> found.mapping,
              namespace |-> [n \in DOMAIN found.mapping |-> found.mapping[n].id]
                              @@ ("GRAPH2GRAPH_LIFTINGS" :> "dict") @@ BaseNamespace]

(***************************************************************************)
(* Wrapper specification: construct a wrapper, then call it on a record    *)
(***************************************************************************)
IdleRest ==
    /\ nm = NewModule /\ step = NoStep /\ val_seen = {}
    /\ data_lst = <<>> /\ ds_res = NoCall
    /\ directory = <<>> /\ registry = NotScanned /\ prev_registry = NotScanned

InitWrapper ==
    /\ wrapper = NoWrapper
    /\ batch = EmptyRecord
    /\ bout = [x_0 |-> <<>>, x_1 |-> <<>>]
    /\ w_outcome = "idle"
    /\ w_out = NoMap
    /\ w_calls = <<>>
    /\ IdleRest

ConstructWrapper ==
    /\ wrapper = NoWrapper
    /\ \E kind \in WrapperKinds, bb \in BackboneRefs :
           wrapper' = DefaultWrapper_init(kind, bb)
    /\ UNCHANGED <<batch, bout, w_outcome, w_out, w_calls, mvars, dvars, rvars>>

\* a record, and what the backbone answers for it, reach the wrapper
ReceiveBatch ==
    /\ wrapper # NoWrapper
    /\ w_outcome = "idle"
    /\ \E in \in WrapperInputs :
         /\ batch' = in.batch
         /\ bout' = in.bout
    /\ w_outcome' = "ready"
    /\ UNCHANGED <<wrapper, w_out, w_calls, mvars, dvars, rvars>>

CallWrapper(kind) ==
    /\ wrapper.kind = kind
    /\ w_outcome = "ready"
    /\ LET r == Wrapper_call(wrapper, batch, bout)
       IN  /\ wrapper' = r.self
           /\ batch' = r.batch
           /\ w_outcome' = r.outcome
           /\ w_out' = r.out
           /\ w_calls' = r.calls
    /\ UNCHANGED <<bout, mvars, dvars, rvars>>

CallHypergraphWrapper == CallWrapper("HypergraphWrapper")
CallSANWrapper == CallWrapper("SANWrapper")
CallCANWrapper == CallWrapper("CANWrapper")

NextWrapper ==
    \/ ConstructWrapper
    \/ ReceiveBatch
    \/ CallHypergraphWrapper
    \/ CallSANWrapper
    \/ CallCANWrapper

SpecWrapper == InitWrapper /\ [][NextWrapper]_vars

(***************************************************************************)
(* NetworkModule specification: one graph with its three masks; the        *)
(* backbone's output for it changes as training updates the backbone       *)
(***************************************************************************)
Splits == {"train", "val", "test"}
ModuleBatches ==
    {FullRecord(CanonY, CanonIncidence)
        @@ ("train_mask" :> [n \in Nodes |-> split[n] = "train"])
        @@ ("val_mask" :> [n \in Nodes |-> split[n] = "val"])
        @@ ("test_mask" :> [n \in Nodes |-> split[n] = "test"]) :
     split \in [Nodes -> Splits]}
ModuleBouts ==
    {[x_0 |-> [n \in Nodes |-> [c \in 1..FeatDim |-> p[n]]],
      x_1 |-> [e \in Edges |-> [c \in 1..FeatDim |-> IF e \in Nodes THEN p[e] ELSE 0]]] :
     p \in [Nodes -> {0, 1}]}

InitModule ==
    /\ nm = NewModule
    /\ step = NoStep
    /\ val_seen = {}
    /\ batch \in ModuleBatches
    /\ bout \in ModuleBouts
    /\ wrapper = NoWrapper /\ w_outcome = "idle" /\ w_out = NoMap /\ w_calls = <<>>
    /\ data_lst = <<>> /\ ds_res = NoCall
    /\ directory = <<>> /\ registry = NotScanned /\ prev_registry = NotScanned

rest_m == <<wrapper, w_outcome, w_out, w_calls, dvars, rvars>>

Construct ==
    /\ nm.status = "new"
    /\ \E cls \in BackboneClasses : nm' = NetworkModule_init([cls |-> cls, ref |-> "bb1"])
    /\ UNCHANGED <<step, val_seen, batch, bout, rest_m>>

\* the training script hands the module its evaluator
AttachEvaluator ==
    /\ nm.status = "ready"
    /\ nm.evaluator = "None"
    /\ nm' = [nm EXCEPT !.evaluator = "evaluator"]
    /\ UNCHANGED <<step, val_seen, batch, bout, rest_m>>

OnTrainStart ==
    /\ nm.status = "ready"
    /\ nm' = [nm EXCEPT !.val_acc_best = MaxMetric_reset]
    /\ step' = [NoStep EXCEPT !.op = "on_train_start", !.outcome = "ok"]
    /\ val_seen' = {}
    /\ UNCHANGED <<batch, bout, rest_m>>

TrainingStep ==
    /\ nm.status = "ready"
    /\ step' = training_step(nm, batch, bout)
    /\ UNCHANGED <<nm, val_seen, batch, bout, rest_m>>

\* the optimizer updates the backbone after a training step
OptimizerStep ==
    /\ nm.status = "ready"
    /\ step.op = "training_step" /\ step.outcome = "ok"
    /\ \E o \in ModuleBouts : bout' = o
    /\ step' = [NoStep EXCEPT !.op = "optimizer_step", !.outcome = "ok"]
    /\ UNCHANGED <<nm, val_seen, batch, rest_m>>

ValidationStep ==
    /\ nm.status = "ready"
    /\ LET r == validation_step(nm, batch, bout)
       IN  /\ step' = r
           /\ IF r.outcome = "ok"
              THEN /\ nm' = [nm EXCEPT !.val_acc_best =
                                MaxMetric_update(nm.val_acc_best, r.out["metrics"].acc)]
                   /\ val_seen' = val_seen \cup {r.logged["val/acc"]}
              ELSE UNCHANGED <<nm, val_seen>>
    /\ UNCHANGED <<batch, bout, rest_m>>

OnValidationEpochEnd ==
    /\ nm.status = "ready"
    /\ step' = [NoStep EXCEPT !.op = "on_validation_epoch_end", !.outcome = "ok",
                              !.logged = ("val/acc_best" :> MaxMetric_compute(nm.val_acc_best)),
                              !.trace = <<"log">>]
    /\ UNCHANGED <<nm, val_seen, batch, bout, rest_m>>

TestStep ==
    /\ nm.status = "ready"
    /\ step' = test_step(nm, batch, bout)
    /\ UNCHANGED <<nm, val_seen, batch, bout, rest_m>>

NextModule ==
    \/ Construct
    \/ AttachEvaluator
    \/ OnTrainStart
    \/ TrainingStep
    \/ OptimizerStep
    \/ ValidationStep
    \/ OnValidationEpochEnd
    \/ TestStep

SpecModule == InitModule /\ [][NextModule]_vars

(***************************************************************************)
(* Claims about the wrappers                                               *)
(***************************************************************************)
\* the fields each wrapper variant reads, the backbone's arguments in order
BackboneArgs(kind) ==
    CASE kind = "HypergraphWrapper" -> <<"x", "incidence_1">>
      [] kind = "SANWrapper" -> <<"x_1", "laplacian_up_1", "laplacian_down_1">>
      [] kind = "CANWrapper" ->
            <<"x", "x_1", "adjacency_0", "down_laplacian_1", "up_laplacian_1">>
Reads(kind) ==
    {"y"} \cup {BackboneArgs(kind)[i] : i \in 1..Len(BackboneArgs(kind))}
          \cup (IF kind = "SANWrapper" THEN {"incidence_1"} ELSE {})
PredictionKeys == {"x_0", "hyperedge", "x_graph"}
Called == w_outcome \notin {"idle", "ready"}

\* C1: a successful wrapper call returns a map holding `labels`, equal to the
\* record's y, and at least one prediction key (x_0, hyperedge or x_graph).
C1_OutputContract ==
    w_outcome = "returned" =>
        /\ w_out # NoMap
        /\ "labels" \in DOMAIN w_out
        /\ w_out["labels"] = batch["y"]
        /\ (DOMAIN w_out \ {"labels"}) \cap PredictionKeys # {}
        /\ Reads(wrapper.kind) \subseteq DOMAIN batch

C1_Witness ==
    /\ w_outcome = "returned"
    /\ wrapper.kind = "CANWrapper"
    /\ batch["y"] # CanonY
    /\ "x_graph" \in DOMAIN w_out

\* sum over the edges in S of inc[n][e] * x1[e]
RECURSIVE EdgeSum(_, _, _, _)
EdgeSum(inc, x1, n, S) ==
    IF S = {} THEN 0
    ELSE LET e == CHOOSE e \in S : TRUE
         IN  inc[n][e] * x1[e] + EdgeSum(inc, x1, n, S \ {e})

\* C2: on the SAN path x_0 is the product of incidence_1 with the backbone's
\* rank-1 output: x_0[n][c] is the sum over edges e of incidence_1[n][e] * x_1[e][c],
\* with one row per rank-0 cell (row of incidence_1).
C2_Projection ==
    (w_outcome = "returned" /\ wrapper.kind = "SANWrapper") =>
        LET inc == batch["incidence_1"]
            x_0 == w_out["x_0"]
        IN  /\ Len(x_0) = Len(inc)
            /\ \A n \in 1..Len(inc) :
                 /\ Len(x_0[n]) = FeatDim
                 /\ \A c \in 1..FeatDim :
                      x_0[n][c] = EdgeSum(inc, [e \in 1..Len(bout.x_1) |-> bout.x_1[e][c]],
                                          n, 1..Len(inc[n]))

C2_Witness ==
    /\ w_outcome = "returned"
    /\ wrapper.kind = "SANWrapper"
    /\ batch["incidence_1"] \in SignedIncidences
    /\ \E n \in 1..Len(w_out["x_0"]) : w_out["x_0"][n][1] = -3
    /\ w_out["x_0"] # bout.x_1

\* at most one invocation, on the owned backbone, with the family's fields in order
C3_Invocation ==
    /\ Len(w_calls) <= 1
    /\ w_outcome \in {"returned", "RuntimeError"} => Len(w_calls) = 1
    /\ \A i \in 1..Len(w_calls) :
         /\ w_calls[i].backbone = wrapper.backbone
         /\ w_calls[i].args =
              [j \in 1..Len(BackboneArgs(wrapper.kind)) |-> batch[BackboneArgs(wrapper.kind)[j]]]

\* the step taken from a received record is the call
C3_Frame == (w_outcome = "ready") => (batch' = batch /\ wrapper' = wrapper)

\* C3: a forward call invokes the backbone at most once, exactly once when it
\* returns, on the wrapper's own backbone with exactly the family's fields in
\* order; the call leaves the record and the wrapper's backbone reference unchanged.
C3_ExactFieldsNoSideEffect == []C3_Invocation /\ [][C3_Frame]_vars

C3_Witness ==
    /\ w_outcome = "returned"
    /\ wrapper.kind = "CANWrapper"
    /\ Len(w_calls) = 1
    /\ Len(w_calls[1].args) = 5

WrapperVariantFor(cls) ==
    CASE cls \in {UniGCNII, AllSetTransformer} -> "HypergraphWrapper"
      [] cls = SAN -> "SANWrapper"
      [] cls = CAN -> "CANWrapper"
      [] OTHER -> "none"

\* C4: construction wraps every backbone whose family has a wrapper variant in
\* that variant, and fails with an unsupported-backbone error, installing no
\* wrapper, exactly for a backbone whose family has none.
C4_DispatchByFamily ==
    nm.status # "new" =>
        IF WrapperVariantFor(nm.hparams) # "none"
        THEN nm.status = "ready" /\ nm.backbone.kind = WrapperVariantFor(nm.hparams)
        ELSE nm.status = "NotImplementedError" /\ nm.backbone = NoWrapper

\* the step hooks, each with its own mask and log prefix
StepOps == {"training_step", "validation_step", "test_step"}
OwnMask(op) ==
    CASE op = "training_step" -> "train_mask"
      [] op = "validation_step" -> "val_mask"
      [] op = "test_step" -> "test_mask"
OwnPrefix(op) ==
    CASE op = "training_step" -> "train"
      [] op = "validation_step" -> "val"
      [] op = "test_step" -> "test"
\* rows the mask keeps, and among them those predicted wrongly before masking
KeptRows(mask) == {n \in 1..Len(mask) : mask[n]}
WrongRows(pre, mask) ==
    {n \in KeptRows(mask) : pre["logits"][n][1] # pre["labels"][n]}

SetMax(S) == IF S = {} THEN NegInf ELSE CHOOSE m \in S : \A v \in S : v <= m

\* the tracker against the history of validation accuracies
C10_TrackerIsMax ==
    /\ nm.val_acc_best = SetMax(val_seen)
    /\ step.op = "on_validation_epoch_end" =>
          step.logged["val/acc_best"] = SetMax(val_seen)
    /\ step.op = "on_train_start" => nm.val_acc_best = NegInf

\* which hooks may change the tracker, and in which direction
C10_OnlyValidation ==
    /\ nm'.val_acc_best # nm.val_acc_best =>
          step'.op \in {"validation_step", "on_train_start"}
    /\ step'.op # "on_train_start" => nm'.val_acc_best >= nm.val_acc_best

\* C10: the best-validation tracker is the maximum acc over the validation
\* steps since the last on_train_start reset; only validation_step raises it,
\* it never decreases between resets, and on_validation_epoch_end logs it.
C10_BestValidation == []C10_TrackerIsMax /\ [][C10_OnlyValidation]_vars

C10_Witness ==
    /\ step.op = "on_validation_epoch_end"
    /\ Cardinality(val_seen) >= 2
    /\ step.logged["val/acc_best"] = NumNodes

(***************************************************************************)
(* Dataset specification: build the dataset from a list, then read it      *)
(***************************************************************************)
rest_d == <<wvars, mvars, rvars>>

InitDataset ==
    /\ \E lst \in DataLists : data_lst = DataloadDataset_init(lst)
    /\ ds_res = NoCall
    /\ wrapper = NoWrapper /\ batch = EmptyRecord /\ bout = [x_0 |-> <<>>, x_1 |-> <<>>]
    /\ w_outcome = "idle" /\ w_out = NoMap /\ w_calls = <<>>
    /\ nm = NewModule /\ step = NoStep /\ val_seen = {}
    /\ directory = <<>> /\ registry = NotScanned /\ prev_registry = NotScanned

DatasetLen ==
    /\ ds_res' = [NoCall EXCEPT !.op = "len", !.outcome = "ok",
                                !.len = DataloadDataset_len(data_lst)]
    /\ UNCHANGED <<data_lst, rest_d>>

DatasetGet ==
    /\ \E idx \in 0..MaxSamples : ds_res' = DataloadDataset_get(data_lst, idx)
    /\ UNCHANGED <<data_lst, rest_d>>

NextDataset ==
    \/ DatasetLen
    \/ DatasetGet

SpecDataset == InitDataset /\ [][NextDataset]_vars

(***************************************************************************)
(* Registry specification: import the graph2graph package, then re-scan    *)
(***************************************************************************)
rest_r == <<wvars, mvars, dvars>>

InitRegistry ==
    /\ directory \in Directories
    /\ registry = NotScanned
    /\ prev_registry = NotScanned
    /\ wrapper = NoWrapper /\ batch = EmptyRecord /\ bout = [x_0 |-> <<>>, x_1 |-> <<>>]
    /\ w_outcome = "idle" /\ w_out = NoMap /\ w_calls = <<>>
    /\ nm = NewModule /\ step = NoStep /\ val_seen = {}
    /\ data_lst = <<>> /\ ds_res = NoCall

ImportPackage ==
    /\ registry = NotScanned
    /\ registry' = graph2graph_import(directory)
    /\ UNCHANGED <<directory, prev_registry, rest_r>>

Rescan ==
    /\ registry # NotScanned
    /\ prev_registry = NotScanned
    /\ prev_registry' = registry
    /\ registry' = graph2graph_import(directory)
    /\ UNCHANGED <<directory, rest_r>>

NextRegistry ==
    \/ ImportPackage
    \/ Rescan

SpecRegistry == InitRegistry /\ [][NextRegistry]_vars

(***************************************************************************)
(* Claims about the dataset                                                *)
(***************************************************************************)
\* C6: for every index i in range, get(i) returns the i-th original sample's
\* field names in insertion order and, position by position, its values;
\* length() is the number of records in the list.
C6_RoundTrip ==
    /\ ds_res.op = "len" => ds_res.len = Len(data_lst)
    /\ ds_res.op = "get" =>
          IF ds_res.arg \in 0..(Len(data_lst) - 1)
          THEN LET orig == data_lst[ds_res.arg + 1]
               IN  /\ ds_res.outcome = "ok"
                   /\ Len(ds_res.keys) = Len(orig)
                   /\ Len(ds_res.data) = Len(orig)
                   /\ \A j \in 1..Len(orig) :
                        /\ ds_res.keys[j] = orig[j][1]
                        /\ ds_res.data[j] = orig[j][2]
          ELSE ds_res.outcome = "IndexError"

C6_Witness ==
    /\ ds_res.op = "get"
    /\ ds_res.outcome = "ok"
    /\ ds_res.arg = 1
    /\ ds_res.keys = <<"x_1", "x", "edge_index">>
    /\ Len(data_lst[1]) = 2
    /\ data_lst[1][1][2] # ds_res.data[2]

(***************************************************************************)
(* Claims about the lifting registry                                       *)
(***************************************************************************)
Scanned == {directory[i] : i \in 1..Len(directory)}
Members == UNION Scanned
ConcreteLiftings == {o \in Members : issubclass(o, LiftingMap) /\ ~o.abstract}
Range(f) == {f[n] : n \in DOMAIN f}

\* C7: discovery selects only concrete classes with the LiftingMap capability,
\* never the abstract base itself: the exported mapping holds exactly the
\* concrete liftings of the scanned directory, each under its declared name.
C7_OnlyConcreteLiftings ==
    registry.status = "ok" =>
        /\ LiftingMap \notin Range(registry.mapping)
        /\ Range(registry.mapping) = ConcreteLiftings
        /\ \A n \in DOMAIN registry.mapping : registry.mapping[n].name = n

\* another discovered implementation exports the name of o
Colliding(o) == \E q \in ConcreteLiftings : q.name = o.name /\ q # o

====
